---- MODULE Spec2Model ----
(***************************************************************************)
(* Model of src/src/script.rs: a single-shot pipeline that splits a video  *)
(* into frames with ffmpeg, resolves a frame rate, resolves an output      *)
(* path and encodes the frames with gifski, staging the frames in a        *)
(* temporary directory.                                                    *)
(*                                                                         *)
(* Paths, OsStrings and texts are sequences of characters.  A character is *)
(* a string; "/" is the path separator, "." the dot, " " whitespace, "0"   *)
(* .. "9" digits.  Any other string ("clip", "gif", "-gifski", "f") stands *)
(* for a run of ordinary characters that are none of these.                *)
(***************************************************************************)
EXTENDS Integers, Sequences, FiniteSets, TLC

\* ------------------------------------------------------------------ bounds
\* longest source path, in characters, of the output-path specification
MaxInputLen == 5
\* longest output specifier, in characters, of the output-path specification
MaxSpecLen == 3
\* longest diagnostic text, in words, of the frame-rate specification
MaxWords == 5
\* largest exit code a tool process returns in the pipeline specification
MaxExitCode == 2

\* ------------------------------------------------------- Option and f32
\* Option<PathBuf> / Option<OsString> / Option<String>::None
NoPath == <<"<None>">>

\* f32 values.  A finite value is the exact fraction num/den (den > 0); the
\* rounding of f32 is not modelled.  NaN is the not-a-number value.
Num(n, d) == [nan |-> FALSE, num |-> n, den |-> d]
NaN == [nan |-> TRUE, num |-> 0, den |-> 1]
\* Option<f32>::None
NoF32 == [nan |-> FALSE, num |-> 0, den |-> 0]

\* f32 comparison `a < b`: false whenever an operand is NaN
F32Lt(a, b) == ~a.nan /\ ~b.nan /\ a.num * b.den < b.num * a.den

\* f32::clamp(self, min, max): x = self; if x < min {x = min}; if x > max {x = max}; x
F32Clamp(x, lo, hi) ==
    LET y == IF F32Lt(x, lo) THEN lo ELSE x
    IN  IF F32Lt(hi, y) THEN hi ELSE y

\* u32::clamp(self, min, max) (Ord::clamp)
U32Clamp(x, lo, hi) == IF x < lo THEN lo ELSE IF x > hi THEN hi ELSE x

\* ----------------------------------------------------------------- paths
Sep == "/"
Dot == "."

Last(s) == s[Len(s)]

\* Components::include_cur_dir / has_physical_root: how many leading
\* characters (a root "/" or a leading "." component) are not part of the body
LenBeforeBody(p) ==
    IF Len(p) >= 1 /\ p[1] = Sep THEN 1
    ELSE IF Len(p) >= 1 /\ p[1] = Dot /\ (Len(p) = 1 \/ p[2] = Sep) THEN 1
    ELSE 0

\* Components::trim_right: drop trailing separators and "." components
RECURSIVE TrimRight(_)
TrimRight(p) ==
    LET n == Len(p) IN
    IF n <= LenBeforeBody(p) THEN p
    ELSE IF p[n] = Sep THEN TrimRight(SubSeq(p, 1, n - 1))
    ELSE IF p[n] = Dot /\ n >= 2 /\ p[n - 1] = Sep THEN TrimRight(SubSeq(p, 1, n - 1))
    ELSE p

\* index of the first character of the last component of a trimmed path
LastStart(t) ==
    LET seps == {i \in (LenBeforeBody(t) + 1)..Len(t) : t[i] = Sep}
    IN  IF seps = {} THEN LenBeforeBody(t) + 1
        ELSE (CHOOSE i \in seps : \A j \in seps : j <= i) + 1

\* Path::file_name: the last component when it is a normal one
FileName(p) ==
    LET t == TrimRight(p) IN
    IF Len(t) <= LenBeforeBody(t) THEN NoPath
    ELSE LET piece == SubSeq(t, LastStart(t), Len(t))
         IN  IF piece = <<Dot, Dot>> THEN NoPath ELSE piece

\* Path::parent: the path without its last component; None for a root or ""
Parent(p) ==
    LET t == TrimRight(p) IN
    IF Len(t) <= LenBeforeBody(t)
    THEN IF t = <<Dot>> THEN <<>> ELSE NoPath
    ELSE TrimRight(SubSeq(t, 1, LastStart(t) - 1))

\* index of the last dot of a file name, 0 when it has none
LastDot(name) ==
    LET dots == {i \in 1..Len(name) : name[i] = Dot}
    IN  IF dots = {} THEN 0 ELSE CHOOSE i \in dots : \A j \in dots : j <= i

\* rsplit_file_at_dot + file_stem: the name up to its last dot; the whole
\* name when it has no dot or only a leading one
StemOfName(name) ==
    IF name = <<Dot, Dot>> \/ LastDot(name) <= 1 THEN name
    ELSE SubSeq(name, 1, LastDot(name) - 1)

\* rsplit_file_at_dot + extension: what follows the last dot (possibly "")
ExtOfName(name) ==
    IF name = <<Dot, Dot>> \/ LastDot(name) <= 1 THEN NoPath
    ELSE SubSeq(name, LastDot(name) + 1, Len(name))

\* Path::file_stem
FileStem(p) == IF FileName(p) = NoPath THEN NoPath ELSE StemOfName(FileName(p))

\* Path::extension
Extension(p) == IF FileName(p) = NoPath THEN NoPath ELSE ExtOfName(FileName(p))

\* PathBuf::push of a path: an absolute path replaces, a relative one is
\* appended after a separator (added unless the buffer is empty or ends in one)
Push(p, s) ==
    IF Len(s) >= 1 /\ s[1] = Sep THEN s
    ELSE IF Len(p) >= 1 /\ Last(p) # Sep THEN p \o <<Sep>> \o s
    ELSE p \o s

\* PathBuf::set_extension: nothing when there is no file name; else the
\* buffer is cut right after the file stem and "." + ext is added
SetExtension(p, ext) ==
    IF FileStem(p) = NoPath THEN p
    ELSE LET t == TrimRight(p)
             cut == SubSeq(t, 1, Len(t) - Len(FileName(p)) + Len(FileStem(p)))
         IN  IF ext = <<>> THEN cut ELSE cut \o <<Dot>> \o ext

\* str::contains('/')
Contains(s, c) == \E i \in 1..Len(s) : s[i] = c

\* parse_output without the set_extension("gif") of its `// output` branch
parse_output_KeepsBareName(input, output, file_name) ==
    LET curr == IF Parent(input) = NoPath THEN input ELSE Parent(input) IN
    IF output # NoPath
    THEN IF Contains(output, Sep) THEN output ELSE Push(curr, output)
    ELSE SetExtension(Push(curr, file_name \o <<"-gifski">>), <<"gif">>)

\* fn parse_output(input, output, file_name) -> Result<PathBuf>; never Err
parse_output(input, output, file_name) ==
    LET curr == IF Parent(input) = NoPath THEN input ELSE Parent(input) IN
    IF output # NoPath
    THEN IF Contains(output, Sep)
         THEN output
         ELSE IF Extension(output) # NoPath
              THEN Push(curr, output)
              ELSE SetExtension(Push(curr, output), <<"gif">>)
    ELSE SetExtension(Push(curr, file_name \o <<"-gifski">>), <<"gif">>)

\* ------------------------------------------------------- frame-rate text
Digits == {"0", "1", "2", "3", "4", "5", "6", "7", "8", "9"}
Whitespace == {" "}

DigitVal(c) ==
    CASE c = "0" -> 0 [] c = "1" -> 1 [] c = "2" -> 2 [] c = "3" -> 3 [] c = "4" -> 4
      [] c = "5" -> 5 [] c = "6" -> 6 [] c = "7" -> 7 [] c = "8" -> 8 [] c = "9" -> 9

\* \d+ from position i: the position after the longest run of digits
RECURSIVE DigitsEnd(_, _)
DigitsEnd(text, i) ==
    IF i <= Len(text) /\ text[i] \in Digits THEN DigitsEnd(text, i + 1) ELSE i

\* (\d+(\.\d+)?) from position i: the position after the number, i when
\* no number starts at i
NumberEnd(text, i) ==
    LET e1 == DigitsEnd(text, i) IN
    IF e1 = i THEN i
    ELSE IF e1 + 1 <= Len(text) /\ text[e1] = Dot /\ DigitsEnd(text, e1 + 1) > e1 + 1
         THEN DigitsEnd(text, e1 + 1)
         ELSE e1

\* the whole pattern (\d+(\.\d+)?)\s(fps) matches from position i
MatchAt(text, i) ==
    LET e == NumberEnd(text, i) IN
    /\ e > i
    /\ e + 3 <= Len(text)
    /\ text[e] \in Whitespace
    /\ text[e + 1] = "f" /\ text[e + 2] = "p" /\ text[e + 3] = "s"

\* a search that reports the rightmost match instead of the leftmost
LastMatch(text) ==
    LET starts == {i \in 1..Len(text) : MatchAt(text, i)}
    IN  IF starts = {} THEN 0 ELSE CHOOSE i \in starts : \A j \in starts : j <= i

\* Regex::captures: the leftmost match; 0 when the text has none
Captures(text) ==
    LET starts == {i \in 1..Len(text) : MatchAt(text, i)}
    IN  IF starts = {} THEN 0 ELSE CHOOSE i \in starts : \A j \in starts : i <= j

\* value of a run of digits read as a decimal integer
RECURSIVE DecInt(_)
DecInt(ds) == IF ds = <<>> THEN 0 ELSE 10 * DecInt(SubSeq(ds, 1, Len(ds) - 1)) + DigitVal(Last(ds))

RECURSIVE Pow10(_)
Pow10(k) == IF k = 0 THEN 1 ELSE 10 * Pow10(k - 1)

\* a fraction n/d (d a power of ten) in lowest power-of-ten terms
RECURSIVE Reduce10(_, _)
Reduce10(n, d) == IF d > 1 /\ n % 10 = 0 THEN Reduce10(n \div 10, d \div 10) ELSE Num(n, d)

\* str::parse::<f32> of a text matched by \d+(\.\d+)?
ParseF32(s) ==
    LET e1 == DigitsEnd(s, 1)
        ip == SubSeq(s, 1, e1 - 1)
        fp == SubSeq(s, e1 + 1, Len(s))
    IN  Reduce10(DecInt(ip) * Pow10(Len(fp)) + DecInt(fp), Pow10(Len(fp)))

\* fn parse_fps(ffmpeg_stderr) -> Result<f32>: captures(..).unwrap() panics
\* when nothing matches; group 1 of the match is parsed
parse_fps(ffmpeg_stderr) ==
    LET i == Captures(ffmpeg_stderr) IN
    IF i = 0 THEN [kind |-> "Panic", val |-> NoF32]
    ELSE [kind |-> "Ok",
          val |-> ParseF32(SubSeq(ffmpeg_stderr, i, NumberEnd(ffmpeg_stderr, i) - 1))]

\* ---------------------------------------------------------------- state
VARIABLES
    pc,             \* the statement of main that runs next, or how main ended
    opt,            \* struct Opt: input, output, quality, fps
    file_name,      \* main's file_name: the input's file stem
    dirExists,      \* whether frames_dir exists on disk
    dirFiles,       \* the files in frames_dir: "stale" (older run), "frame"
    output,         \* main's output: the resolved output path
    ffmpeg_stderr,  \* main's ffmpeg_stderr
    fps,            \* main's fps
    ffmpeg,         \* the ffmpeg process: invoked, launched, exit code
    gifski,         \* the gifski process: invoked, launched, exit code
    gifskiArgs,     \* the --fps, --quality and -o arguments given to gifski
    artifact,       \* the file gifski wrote, if any
    outcome,        \* how main ended: Ok, Err (returned) or Panic (aborted)
    created,        \* history: fs::create_dir of line 73 succeeded
    cleanups,       \* history: calls of fs::remove_dir_all at line 85
    start,          \* history: frames_dir (exists, files) when main started
    calls           \* history: how often lines 72, 73, 80 and 83 have run

vars == <<pc, opt, file_name, dirExists, dirFiles, output, ffmpeg_stderr, fps,
          ffmpeg, gifski, gifskiArgs, artifact, outcome, created, cleanups,
          start, calls>>

\* ExitStatus::code() is None when the process was ended by a signal
NoCode == -1

NotInvoked == [invoked |-> FALSE, launched |-> FALSE, code |-> NoCode]
NotLaunched == [invoked |-> TRUE, launched |-> FALSE, code |-> NoCode]
Exited(c) == [invoked |-> TRUE, launched |-> TRUE, code |-> c]

NoArgs == [fps |-> NoF32, quality |-> 0, output |-> NoPath]

Running == [kind |-> "Running", at |-> "", cause |-> "", code |-> NoCode]
Ended(k, a, c, n) == [kind |-> k, at |-> a, cause |-> c, code |-> n]

Terminal == pc \in {"ok", "err", "panic"}

\* the calls main has made of remove_dir_all (line 72), create_dir (line 73),
\* ffmpeg_command (line 80) and gifski_command (line 83)
Calls(r, c, f, g) == [remove |-> r, create |-> c, ffmpeg |-> f, gifski |-> g]

\* all sequences over S of length at most n
SeqsUpTo(S, n) == UNION {[1..k -> S] : k \in 0..n}

\* ------------------------------------------------------- sample inputs
Str_clip_mp4 == <<"/", "videos", "/", "clip", ".", "mp4">>
Str_clip_v2_mp4 == <<"/", "videos", "/", "clip", ".", "v2", ".", "mp4">>
Str_rel_mp4 == <<"clip", ".", "mp4">>
Str_root == <<"/">>

PipelineInputs == {Str_clip_mp4, Str_clip_v2_mp4, Str_rel_mp4, Str_root}

PipelineOutputs ==
    {NoPath, <<"out">>, <<"out", ".", "gif">>, <<"sub", "/", "out", ".", "webp">>,
     <<".", ".">>}

\* u32 values of --quality
PipelineQualities == {0, 100, 101, 1000}

\* Option<f32> values of --fps ("NaN" parses as an f32)
PipelineRates == {NoF32, NaN, Num(-1, 1), Num(2997, 100), Num(50, 1), Num(60, 1)}

\* texts ffmpeg may write to its stderr
PipelineStderrs ==
    { <<>>,
      <<"f", "p", "s">>,
      <<"3", "0", " ", "f", "p", "s">>,
      <<"2", "9", ".", "9", "7", " ", "f", "p", "s">>,
      <<"1", "0", " ", "f", "p", "s", " ", "2", "0", " ", "f", "p", "s">>,
      <<"9", "0", " ", "f", "p", "s">> }

Init ==
    /\ pc = "stem"
    /\ opt \in [input : PipelineInputs, output : PipelineOutputs,
                quality : PipelineQualities, fps : PipelineRates]
    /\ file_name = NoPath
    /\ dirExists \in BOOLEAN
    /\ dirFiles \in (IF dirExists THEN {{}, {"stale"}} ELSE {{}})
    /\ output = NoPath
    /\ ffmpeg_stderr = NoPath
    /\ fps = NoF32
    /\ ffmpeg = NotInvoked
    /\ gifski = NotInvoked
    /\ gifskiArgs = NoArgs
    /\ artifact = NoPath
    /\ outcome = Running
    /\ created = FALSE
    /\ cleanups = 0
    /\ start = [exists |-> dirExists, files |-> dirFiles]
    /\ calls = Calls(0, 0, 0, 0)

\* ------------------------------------------------------------ filesystem
\* fs::remove_dir_all(path): the results it can have in the current state.
\* A missing path is Err(NotFound); an existing directory is removed, or
\* the removal fails (permissions, a busy file) leaving part of its files.
RemoveDirAll ==
    IF ~dirExists
    THEN {[ok |-> FALSE, cause |-> "NotFound", exists |-> FALSE, files |-> {}]}
    ELSE {[ok |-> TRUE, cause |-> "", exists |-> FALSE, files |-> {}]}
         \cup {[ok |-> FALSE, cause |-> "Io", exists |-> TRUE, files |-> f] :
                 f \in SUBSET dirFiles}

\* fs::create_dir(path): Err(AlreadyExists) when the path exists; else the
\* directory is created empty, or the creation fails (permissions)
CreateDir ==
    IF dirExists
    THEN {[ok |-> FALSE, cause |-> "AlreadyExists", exists |-> TRUE, files |-> dirFiles]}
    ELSE {[ok |-> TRUE, cause |-> "", exists |-> TRUE, files |-> {}],
          [ok |-> FALSE, cause |-> "Io", exists |-> FALSE, files |-> {}]}

\* ----------------------------------------------------------------- main
\* line 65 without the .expect(..): the run goes on with no file stem
StemUnchecked ==
    /\ pc = "stem"
    /\ file_name' = FileStem(opt.input)
    /\ pc' = "remove"
    /\ UNCHANGED <<opt, dirExists, dirFiles, output, ffmpeg_stderr, fps, ffmpeg,
                   gifski, gifskiArgs, artifact, outcome, created, cleanups, start,
                   calls>>

\* line 65: opt.input.file_stem().expect(..)
Stem ==
    /\ pc = "stem"
    /\ file_name' = FileStem(opt.input)
    /\ IF FileStem(opt.input) = NoPath
       THEN /\ pc' = "panic"
            /\ outcome' = Ended("Panic", "stem", "NoStem", NoCode)
       ELSE /\ pc' = "remove"
            /\ UNCHANGED outcome
    /\ UNCHANGED <<opt, dirExists, dirFiles, output, ffmpeg_stderr, fps, ffmpeg,
                   gifski, gifskiArgs, artifact, created, cleanups, start, calls>>

\* line 72: fs::remove_dir_all(&frames_dir)?
PrepareRemove ==
    /\ pc = "remove"
    /\ \E r \in RemoveDirAll :
         /\ dirExists' = r.exists
         /\ dirFiles' = r.files
         /\ IF r.ok
            THEN pc' = "create" /\ UNCHANGED outcome
            ELSE pc' = "err" /\ outcome' = Ended("Err", "remove", r.cause, NoCode)
    /\ calls' = [calls EXCEPT !.remove = @ + 1]
    /\ UNCHANGED <<opt, file_name, output, ffmpeg_stderr, fps, ffmpeg, gifski,
                   gifskiArgs, artifact, created, cleanups, start>>

\* line 73 without the `?`: the error of create_dir is dropped
PrepareCreateIgnoringError ==
    /\ pc = "create"
    /\ \E r \in CreateDir :
         /\ dirExists' = r.exists
         /\ dirFiles' = r.files
         /\ created' = r.ok
    /\ pc' = "parse_output"
    /\ calls' = [calls EXCEPT !.create = @ + 1]
    /\ UNCHANGED <<opt, file_name, output, ffmpeg_stderr, fps, ffmpeg, gifski,
                   gifskiArgs, artifact, outcome, cleanups, start>>

\* line 73: fs::create_dir(&frames_dir)?
PrepareCreate ==
    /\ pc = "create"
    /\ \E r \in CreateDir :
         /\ dirExists' = r.exists
         /\ dirFiles' = r.files
         /\ created' = r.ok
         /\ IF r.ok
            THEN pc' = "parse_output" /\ UNCHANGED outcome
            ELSE pc' = "err" /\ outcome' = Ended("Err", "create", r.cause, NoCode)
    /\ calls' = [calls EXCEPT !.create = @ + 1]
    /\ UNCHANGED <<opt, file_name, output, ffmpeg_stderr, fps, ffmpeg, gifski,
                   gifskiArgs, artifact, cleanups, start>>

\* line 76: parse_output(opt.input.clone(), &opt.output, &file_name)?
ResolveOutput ==
    /\ pc = "parse_output"
    /\ output' = parse_output(opt.input, opt.output, file_name)
    /\ pc' = "ffmpeg"
    /\ UNCHANGED <<opt, file_name, dirExists, dirFiles, ffmpeg_stderr, fps, ffmpeg,
                   gifski, gifskiArgs, artifact, outcome, created, cleanups, start,
                   calls>>

\* ---------------------------------------------------------------- tools
\* what Command::output() can give: the program cannot be started, or it
\* runs and ends with an exit code or by a signal (code() = None)
Statuses == {NotLaunched} \cup {Exited(c) : c \in 0..MaxExitCode} \cup {Exited(NoCode)}

\* lines 95-105 and 117-127 without the check of output.status
AfterCommandIgnoringStatus(st, at) ==
    IF ~st.launched THEN Ended("Panic", at, "Spawn", NoCode) ELSE Running

\* lines 95-105 and 117-127: .output().expect(..) panics when the program
\* cannot be started; a failing status bails with status.code().unwrap(),
\* which panics when there is no exit code
AfterCommand(st, at) ==
    IF ~st.launched THEN Ended("Panic", at, "Spawn", NoCode)
    ELSE IF st.code = 0 THEN Running
    ELSE IF st.code = NoCode THEN Ended("Panic", at, "NoExitCode", NoCode)
    ELSE Ended("Err", at, "ExitStatus", st.code)

\* where main goes on after a step: Ok goes to the next line, an Err is
\* returned by `?`, a panic unwinds.  Two variants that are not the code's:
\* one that drops the Err, one that runs the failed step again.
PcOfIgnoringError(o, next) == IF o.kind = "Panic" THEN "panic" ELSE next

PcOfRetrying(o, next) ==
    IF o.kind = "Running" THEN next ELSE IF o.kind = "Err" THEN o.at ELSE "panic"

PcOf(o, next) ==
    IF o.kind = "Running" THEN next ELSE IF o.kind = "Err" THEN "err" ELSE "panic"

\* line 80: ffmpeg_command(&opt.input, &frames_dir)?
Ffmpeg ==
    /\ pc = "ffmpeg"
    /\ \E st \in Statuses, text \in PipelineStderrs, wrote \in BOOLEAN :
         /\ ffmpeg' = st
         /\ outcome' = AfterCommand(st, "ffmpeg")
         /\ pc' = PcOf(outcome', "fps")
         /\ ffmpeg_stderr' = IF outcome'.kind = "Running" THEN text ELSE NoPath
         \* a successful run wrote the frames; a failed one may have written some
         /\ dirFiles' = IF st.launched /\ dirExists /\ (st.code = 0 \/ wrote)
                        THEN dirFiles \cup {"frame"} ELSE dirFiles
    /\ calls' = [calls EXCEPT !.ffmpeg = @ + 1]
    /\ UNCHANGED <<opt, file_name, dirExists, output, fps, gifski, gifskiArgs,
                   artifact, created, cleanups, start>>

\* line 81: if let Some(f) = opt.fps { f } else { parse_fps(&ffmpeg_stderr)? }
ResolveRate ==
    /\ pc = "fps"
    /\ IF opt.fps # NoF32
       THEN /\ fps' = opt.fps
            /\ pc' = "gifski"
            /\ UNCHANGED outcome
       ELSE LET r == parse_fps(ffmpeg_stderr) IN
            /\ fps' = r.val
            /\ IF r.kind = "Ok"
               THEN pc' = "gifski" /\ UNCHANGED outcome
               ELSE /\ pc' = PcOf(r, "gifski")
                    /\ outcome' = Ended(r.kind, "fps", "NoMatch", NoCode)
    /\ UNCHANGED <<opt, file_name, dirExists, dirFiles, output, ffmpeg_stderr,
                   ffmpeg, gifski, gifskiArgs, artifact, created, cleanups, start,
                   calls>>

\* lines 113-121: the arguments gifski_command builds
GifskiArguments(quality, frames, out) ==
    [fps |-> F32Clamp(frames, Num(0, 1), Num(50, 1)),
     quality |-> U32Clamp(quality, 0, 100),
     output |-> out]

\* line 83: gifski_command(opt.quality, fps, &frames_dir, output)?
Gifski ==
    /\ pc = "gifski"
    /\ gifskiArgs' = GifskiArguments(opt.quality, fps, output)
    /\ \E st \in Statuses :
         /\ gifski' = st
         /\ outcome' = AfterCommand(st, "gifski")
         /\ pc' = PcOf(outcome', "cleanup")
         /\ artifact' = IF st.launched /\ st.code = 0 THEN output ELSE NoPath
    /\ calls' = [calls EXCEPT !.gifski = @ + 1]
    /\ UNCHANGED <<opt, file_name, dirExists, dirFiles, output, ffmpeg_stderr, fps,
                   ffmpeg, created, cleanups, start>>

\* lines 85-89 without the `?`: Ok(()) whatever remove_dir_all returns
CleanupIgnoringError ==
    /\ pc = "cleanup"
    /\ cleanups' = cleanups + 1
    /\ \E r \in RemoveDirAll :
         /\ dirExists' = r.exists
         /\ dirFiles' = r.files
    /\ pc' = "ok"
    /\ outcome' = Ended("Ok", "", "", NoCode)
    /\ UNCHANGED <<opt, file_name, output, ffmpeg_stderr, fps, ffmpeg, gifski,
                   gifskiArgs, artifact, created, start, calls>>

\* lines 85-89: fs::remove_dir_all(&frames_dir)?; Ok(())
Cleanup ==
    /\ pc = "cleanup"
    /\ cleanups' = cleanups + 1
    /\ \E r \in RemoveDirAll :
         /\ dirExists' = r.exists
         /\ dirFiles' = r.files
         /\ IF r.ok
            THEN pc' = "ok" /\ outcome' = Ended("Ok", "", "", NoCode)
            ELSE pc' = "err" /\ outcome' = Ended("Err", "cleanup", r.cause, NoCode)
    /\ UNCHANGED <<opt, file_name, output, ffmpeg_stderr, fps, ffmpeg, gifski,
                   gifskiArgs, artifact, created, start, calls>>

Next ==
    \/ Stem
    \/ PrepareRemove
    \/ PrepareCreate
    \/ ResolveOutput
    \/ Ffmpeg
    \/ ResolveRate
    \/ Gifski
    \/ Cleanup

\* one run of main, from any command line and any state of the frames directory
Spec == Init /\ [][Next]_vars

\* ------------------------------------- parse_output over all short inputs
\* characters of source paths and of output specifiers
InputChars == {Sep, Dot, "a"}
SpecChars == {Sep, Dot, "a", "gif"}

\* main at line 76, the frames directory prepared, for every source path
\* that has a file stem and every output specifier
InitOut ==
    /\ pc = "parse_output"
    /\ opt \in [input : {p \in SeqsUpTo(InputChars, MaxInputLen) : FileStem(p) # NoPath},
                output : {NoPath} \cup SeqsUpTo(SpecChars, MaxSpecLen),
                quality : {100}, fps : {NoF32}]
    /\ file_name = FileStem(opt.input)
    /\ dirExists = TRUE
    /\ dirFiles = {}
    /\ output = NoPath
    /\ ffmpeg_stderr = NoPath
    /\ fps = NoF32
    /\ ffmpeg = NotInvoked
    /\ gifski = NotInvoked
    /\ gifskiArgs = NoArgs
    /\ artifact = NoPath
    /\ outcome = Running
    /\ created = TRUE
    /\ cleanups = 0
    /\ start = [exists |-> FALSE, files |-> {}]
    /\ calls = Calls(1, 1, 0, 0)

NextOut == ResolveOutput

SpecOut == InitOut /\ [][NextOut]_vars

\* ---------------------------------------- parse_fps over all short texts
\* the pieces diagnostic texts are built from
Words == {<<"1">>, <<"0">>, <<Dot>>, <<" ">>, <<"f", "p", "s">>, <<" ", "f", "p", "s">>}

RECURSIVE Flatten(_)
Flatten(ws) == IF ws = <<>> THEN <<>> ELSE Head(ws) \o Flatten(Tail(ws))

Texts == {Flatten(ws) : ws \in SeqsUpTo(Words, MaxWords)}

\* main at line 81, ffmpeg having succeeded, for every diagnostic text and
\* with and without --fps
InitFps ==
    /\ pc = "fps"
    /\ opt \in [input : {Str_clip_mp4}, output : {NoPath}, quality : {100},
                fps : {NoF32, Num(25, 1), Num(60, 1)}]
    /\ file_name = FileStem(opt.input)
    /\ dirExists = TRUE
    /\ dirFiles = {"frame"}
    /\ output = parse_output(opt.input, opt.output, file_name)
    /\ ffmpeg_stderr \in Texts
    /\ fps = NoF32
    /\ ffmpeg = Exited(0)
    /\ gifski = NotInvoked
    /\ gifskiArgs = NoArgs
    /\ artifact = NoPath
    /\ outcome = Running
    /\ created = TRUE
    /\ cleanups = 0
    /\ start = [exists |-> FALSE, files |-> {}]
    /\ calls = Calls(1, 1, 1, 0)

NextFps == ResolveRate

SpecFps == InitFps /\ [][NextFps]_vars

\* ================================================================ claims

\* C1 (as claimed): whenever the workspace was prepared and a later stage
\* (extraction, rate resolution, encoding) fails, removal of the workspace
\* was attempted before the run ended; after gifski exits with a non-zero
\* status the workspace directory does not exist when the run ends.
C1_TeardownAfterFailure ==
    (pc = "err" /\ created /\ outcome.at \in {"ffmpeg", "fps", "gifski"})
        => /\ cleanups > 0
           /\ (gifski.launched /\ gifski.code > 0) => ~dirExists

\* C2 (as claimed): preparation never ends with an error caused by the
\* directory being absent beforehand, and once it is past the directory
\* exists and is empty, whatever the directory's state before the run.
C2_PrepareFromAnyStart ==
    /\ ~(outcome.kind = "Err" /\ outcome.at = "remove" /\ outcome.cause = "NotFound")
    /\ pc = "parse_output" => (dirExists /\ dirFiles = {})

\* C3 (as claimed): when every stage up to and including encoding succeeded,
\* the run ends in success even if the final removal of the workspace fails.
C3_TeardownFailureIsWarning ==
    (Terminal /\ gifski = Exited(0)) => outcome.kind = "Ok"

\* s is a number as the diagnostic text writes it: digits, optionally
\* followed by a dot and digits
IsNumber(s) ==
    /\ Len(s) >= 1
    /\ \A k \in 1..Len(s) : s[k] \in Digits \cup {Dot}
    /\ Cardinality({k \in 1..Len(s) : s[k] = Dot}) <= 1
    /\ s[1] # Dot /\ s[Len(s)] # Dot

\* a number occupies positions i..j-1 and whitespace and "fps" follow it
Occurrence(text, i, j) ==
    /\ 1 <= i /\ i < j /\ j + 3 <= Len(text)
    /\ IsNumber(SubSeq(text, i, j - 1))
    /\ text[j] \in Whitespace
    /\ SubSeq(text, j + 1, j + 3) = <<"f", "p", "s">>

\* the text holds <number><whitespace>fps somewhere
HasOccurrence(text) ==
    \E i \in 1..Len(text), j \in 1..Len(text) : Occurrence(text, i, j)

\* C4 (as claimed): with no --fps and a diagnostic text without the fps
\* pattern, rate resolution ends in an error value returned to main (not in
\* an abort of the program) and gifski is not invoked.
C4_NoPatternIsReturnedError ==
    (pc # "fps" /\ ffmpeg = Exited(0) /\ ffmpeg_stderr # NoPath
        /\ opt.fps = NoF32 /\ ~HasOccurrence(ffmpeg_stderr))
        => /\ outcome.kind = "Err"
           /\ outcome.at = "fps"
           /\ ~gifski.invoked

\* C5: once the rate is resolved, it is the --fps value whenever one was
\* given, whatever the diagnostic text (and the run goes on to encoding);
\* with no --fps and a text holding the pattern, it is the number of the
\* occurrence that starts first in the text.
C5_RateResolution ==
    pc # "fps" =>
        /\ opt.fps # NoF32 => (pc = "gifski" /\ fps = opt.fps /\ outcome = Running)
        /\ (opt.fps = NoF32 /\ HasOccurrence(ffmpeg_stderr)) =>
              /\ pc = "gifski"
              /\ \E i \in 1..Len(ffmpeg_stderr), j \in 1..Len(ffmpeg_stderr) :
                    /\ Occurrence(ffmpeg_stderr, i, j)
                    /\ \A i2 \in 1..(i - 1), j2 \in 1..Len(ffmpeg_stderr) :
                          ~Occurrence(ffmpeg_stderr, i2, j2)
                    /\ fps = ParseF32(SubSeq(ffmpeg_stderr, i, j - 1))

\* C5 witness: no --fps, "1 fps" and later "0 fps" in the text, resolved to 1
C5_Witness ==
    /\ pc = "gifski"
    /\ opt.fps = NoF32
    /\ ffmpeg_stderr = <<"1", " ", "f", "p", "s", " ", "0", " ", "f", "p", "s">>
    /\ fps = Num(1, 1)

\* the resolved path lies in the source file's directory
InSourceDir == Parent(output) = Parent(opt.input)

\* C6 (as claimed): for every source path and every given specifier the
\* resolved path is: the specifier verbatim when it holds a separator; else
\* the specifier, verbatim, as a file of the source's directory when it has
\* an extension; else the specifier followed by ".gif" as a file of the
\* source's directory.
C6_OutputRules ==
    (pc = "ffmpeg" /\ opt.output # NoPath) =>
        IF Contains(opt.output, Sep) THEN output = opt.output
        ELSE IF Extension(opt.output) # NoPath
             THEN InSourceDir /\ FileName(output) = opt.output
             ELSE InSourceDir /\ FileName(output) = opt.output \o <<Dot, "gif">>

\* The rules of C6 for the specifiers that hold a separator, have an
\* extension or are a plain file name: these the code follows.
OutputRulesForFileNames ==
    (pc = "ffmpeg" /\ opt.output # NoPath
        /\ (Contains(opt.output, Sep) \/ FileName(opt.output) # NoPath))
        => C6_OutputRules

\* C7 (as claimed): with no specifier the resolved path is a file of the
\* source's directory named <stem>-gifski.gif, for every stem, also one that
\* holds a dot.
C7_DefaultName ==
    (pc = "ffmpeg" /\ opt.output = NoPath) =>
        /\ InSourceDir
        /\ FileName(output) = file_name \o <<"-gifski", Dot, "gif">>

\* C8 (as claimed): the resolved output path always has the extension gif.
C8_AlwaysGif ==
    pc = "ffmpeg" => Extension(output) = <<"gif">>

\* a specifier that is a plain file name: no separator, and not "", "." or
\* ".." (which name no file: Path::file_name is None for them)
BareName(s) == ~Contains(s, Sep) /\ FileName(s) # NoPath

\* C8 (amended): the resolved path has the extension gif whenever no
\* specifier is given or the specifier is a plain file name (no separator,
\* not "", "." or "..") without extension; a
\* specifier with a separator or with an extension keeps its own extension.
C8_GifUnlessSpecifierDecides ==
    pc = "ffmpeg" =>
        /\ (opt.output = NoPath \/ (BareName(opt.output) /\ Extension(opt.output) = NoPath))
              => Extension(output) = <<"gif">>
        /\ (opt.output # NoPath
              /\ (Contains(opt.output, Sep) \/ Extension(opt.output) # NoPath))
              => Extension(output) = Extension(opt.output)

\* C8 witness: the bare specifier "a" was resolved and got the extension gif
C8_Witness ==
    /\ pc = "ffmpeg"
    /\ opt.output = <<"a">>
    /\ opt.input = <<Sep, "a", Sep, "a">>
    /\ output = <<Sep, "a", Sep, "a", Dot, "gif">>

\* x lies in the closed range [lo, hi]
F32InRange(x, lo, hi) == ~x.nan /\ ~F32Lt(x, lo) /\ ~F32Lt(hi, x)

\* C9 (as claimed): whenever gifski is run its quality argument lies in
\* [0,100] and its fps argument in [0,50]; a value inside the range is passed
\* unchanged, and clamping the passed values again changes nothing.
C9_ArgumentsInRange ==
    gifski.launched =>
        /\ gifskiArgs.quality \in 0..100
        /\ F32InRange(gifskiArgs.fps, Num(0, 1), Num(50, 1))
        /\ opt.quality \in 0..100 => gifskiArgs.quality = opt.quality
        /\ F32InRange(fps, Num(0, 1), Num(50, 1)) => gifskiArgs.fps = fps
        /\ GifskiArguments(gifskiArgs.quality, gifskiArgs.fps, gifskiArgs.output) = gifskiArgs

\* the process ran and ended with a failing status
Failed(tool) == tool.launched /\ tool.code # 0

\* C10 (as claimed): whenever ffmpeg or gifski ran and ended with a failing
\* status, the run ends in a returned error that carries the tool's exit code.
C10_FailureCarriesExitCode ==
    /\ Failed(ffmpeg) =>
          (outcome.kind = "Err" /\ outcome.at = "ffmpeg" /\ outcome.code = ffmpeg.code
             /\ outcome.code # NoCode)
    /\ Failed(gifski) =>
          (outcome.kind = "Err" /\ outcome.at = "gifski" /\ outcome.code = gifski.code
             /\ outcome.code # NoCode)

\* C11 (as claimed): whenever ffmpeg or gifski cannot be started, the run
\* ends in a returned error (the failure path of the pipeline), not in an
\* abort of the program.
C11_ToolNotFoundIsReturnedError ==
    (ffmpeg = NotLaunched \/ gifski = NotLaunched) => outcome.kind = "Err"

\* C12: the run is in the terminal success state only after the workspace
\* was created, both tools ran with success, gifski was given the resolved
\* output path and wrote the artifact there, and the workspace was removed
\* once; in that state the workspace directory does not exist.
C12_SuccessAfterAllStages ==
    pc = "ok" =>
        /\ created
        /\ ffmpeg = Exited(0)
        /\ gifski = Exited(0)
        /\ output = parse_output(opt.input, opt.output, file_name)
        /\ gifskiArgs.output = output
        /\ artifact = output
        /\ cleanups = 1
        /\ ~dirExists

\* a run that started with a stale frames directory and ended in success
C12_Witness ==
    /\ pc = "ok"
    /\ start.exists /\ start.files = {"stale"}
    /\ ~dirExists
    /\ artifact = output

\* C13 (as claimed): the output path is resolved after frame extraction and
\* frame-rate resolution: whenever the output path has been resolved, ffmpeg
\* has exited with success and a frame rate is available.
C13_OutputResolvedAfterRate ==
    output # NoPath => (ffmpeg = Exited(0) /\ fps # NoF32)

\* C13 (amended): the stages occur in the order Init, WorkspaceReady,
\* OutputResolved, FramesExtracted, RateResolved, Encoded, CleanedUp.  No
\* stage is entered, and no stage has left its effect, before its
\* predecessor in this list has completed.
C13_StageOrder ==
    /\ pc \in {"stem", "remove", "create"} => (~created /\ output = NoPath)
    /\ pc = "parse_output" => (created /\ output = NoPath)
    /\ output # NoPath => created
    /\ pc = "ffmpeg" => (output # NoPath /\ ~ffmpeg.invoked)
    /\ ffmpeg.invoked => output # NoPath
    /\ pc = "fps" => (ffmpeg = Exited(0) /\ fps = NoF32)
    /\ fps # NoF32 => ffmpeg = Exited(0)
    /\ pc = "gifski" => (fps # NoF32 /\ ~gifski.invoked)
    /\ gifski.invoked => fps # NoF32
    /\ pc = "cleanup" => (gifski = Exited(0) /\ cleanups = 0)
    /\ cleanups > 0 => gifski = Exited(0)
    /\ pc = "ok" => cleanups > 0

\* the output path is resolved and ffmpeg has not been invoked yet
C13_Witness ==
    /\ pc = "ffmpeg"
    /\ created
    /\ output = parse_output(opt.input, opt.output, file_name)
    /\ ~ffmpeg.invoked
    /\ fps = NoF32

\* C14: Command::output() returns when the child has exited, so a tool is
\* never running while main goes on; whenever gifski is about to be run or
\* has been run, ffmpeg has been run once and has exited with success, and
\* a frame rate value is available.
C14_EncoderAfterExtraction ==
    (pc = "gifski" \/ gifski.invoked) =>
        /\ ffmpeg = Exited(0)
        /\ calls.ffmpeg = 1
        /\ fps # NoF32
        /\ (opt.fps = NoF32 => fps = parse_fps(ffmpeg_stderr).val)

\* gifski has run, with the frame rate read from the text of ffmpeg
C14_Witness ==
    /\ gifski.launched
    /\ ffmpeg = Exited(0)
    /\ opt.fps = NoF32
    /\ fps = Num(30, 1)

\* C15: when the preparation of the workspace failed, ffmpeg is never
\* invoked; when ffmpeg failed or the frame rate could not be resolved,
\* gifski is never invoked and no artifact is written.
C15_FailureAbortsRemainingStages ==
    /\ (calls.remove > 0 /\ pc # "create" /\ calls.create = 0) =>
           (pc = "err" /\ ~ffmpeg.invoked /\ ~gifski.invoked /\ artifact = NoPath)
    /\ (calls.create > 0 /\ ~created) =>
           (pc = "err" /\ ~ffmpeg.invoked /\ ~gifski.invoked /\ artifact = NoPath)
    /\ (ffmpeg.invoked /\ ffmpeg # Exited(0)) =>
           (Terminal /\ ~gifski.invoked /\ artifact = NoPath)
    /\ (outcome.at = "fps") =>
           (Terminal /\ ~gifski.invoked /\ artifact = NoPath)

\* a run ended by a failing ffmpeg, and nothing was encoded
C15_Witness ==
    /\ Terminal
    /\ Failed(ffmpeg)
    /\ ~gifski.invoked
    /\ artifact = NoPath

\* C16: when ffmpeg is about to be invoked the frames directory exists and
\* is empty, whatever it held when the run started; from then on it holds
\* no file of an earlier run, and gifski finds in it the frames of this run.
C16_FreshWorkspace ==
    /\ pc = "ffmpeg" => (dirExists /\ dirFiles = {})
    /\ (ffmpeg.invoked \/ gifski.invoked) => "stale" \notin dirFiles
    /\ pc = "gifski" => (dirExists /\ dirFiles = {"frame"})

\* ffmpeg is about to be invoked in a run that started with stale frames
C16_Witness ==
    /\ pc = "ffmpeg"
    /\ start.exists /\ start.files = {"stale"}
    /\ dirExists /\ dirFiles = {}

\* C17: within one run remove_dir_all and create_dir of the preparation,
\* ffmpeg, gifski and the final removal are each called at most once.
C17_NoRetry ==
    /\ calls.remove <= 1
    /\ calls.create <= 1
    /\ calls.ffmpeg <= 1
    /\ calls.gifski <= 1
    /\ cleanups <= 1

\* a run ended by a failing gifski after one call of every stage
C17_Witness ==
    /\ Terminal
    /\ Failed(gifski)
    /\ calls = Calls(1, 1, 1, 1)

\* C18: when the source path has no file stem, the run ends right after
\* line 65 in a fatal failure: the frames directory is as it was when the
\* run started, no filesystem call was made and no tool was invoked.
C18_NoStemNoEffect ==
    (FileStem(opt.input) = NoPath /\ pc # "stem") =>
        /\ pc = "panic"
        /\ outcome = Ended("Panic", "stem", "NoStem", NoCode)
        /\ dirExists = start.exists
        /\ dirFiles = start.files
        /\ calls = Calls(0, 0, 0, 0)
        /\ cleanups = 0
        /\ ~ffmpeg.invoked
        /\ ~gifski.invoked
        /\ artifact = NoPath

\* the run ended on a source path without a stem, over a stale directory
C18_Witness ==
    /\ FileStem(opt.input) = NoPath
    /\ pc = "panic"
    /\ start.exists /\ start.files = {"stale"}
    /\ dirExists /\ dirFiles = {"stale"}
====
